---- MODULE Spec2Model ----
(***************************************************************************)
(* Model of pkg/utils/utils.go of opi-gateway-evpn-cni: the NetConf cache, *)
(* the Retry helper, the sysfs device resolver, the PCI-to-MAC mapping     *)
(* store, the container runtime client and the MAC validity predicate.     *)
(*                                                                         *)
(* Each component has its own state variables and its own specification    *)
(* (SpecCache, SpecRetry, ...); a specification keeps the variables of the *)
(* other components at their idle value.                                   *)
(***************************************************************************)
EXTENDS Integers, Sequences, FiniteSets, TLC

VARIABLES
    \* NetConf cache: the data directory on disk and the last call made
    dirExists,      \* does dataDir exist (os.MkdirAll creates it)
    files,          \* entry path -> NoFile or the bytes of the file
    cacheCall,      \* the last cache operation: its arguments and what it returned
    \* Retry: the local variables of the running call
    retries,        \* argument: maxAttempts
    retry,          \* loop counter
    retryErr,       \* local err
    retryPc,        \* position in the loop
    retryRet,       \* returned value once retryPc = "done"
    calls,          \* outcome of every invocation of f so far, in order
    sleeps,         \* for every time.Sleep so far, the number of invocations before it
    \* sysfs: the kernel's pseudo files and the last resolver call
    numvfs,         \* pf -> the node <pf>/device/sriov_numvfs and its content
    virtfn,         \* pf -> vf index -> NoLink, NotLink or the link's target
    netdir,         \* pci address -> NoDir, NotDir or the set of names in <addr>/net
    sysCall,        \* the last resolver call and what it returned
    \* PCI-to-MAC mapping file and the last lookup
    macFile,
    macCall,
    \* container runtime: the call in progress
    rtEndpoint,     \* argument runtimeEndpoint
    rtReachable,    \* endpoints whose NewRemoteRuntimeService succeeds
    rtKnows,        \* endpoints whose runtime answers PodSandboxStatus for the container
    rtPc,
    rtTried,        \* endpoints a connection was attempted to, in order
    rtClient,       \* res of getRuntimeService
    rtErr,          \* err of getRuntimeService
    rtQueries,      \* endpoints PodSandboxStatus was sent to, in order
    rtRet,          \* what GetContainerPid returned
    \* IsValidMACAddress: the argument and the result
    macAddr,
    macValid

cacheVars == <<dirExists, files, cacheCall>>
retryVars == <<retries, retry, retryErr, retryPc, retryRet, calls, sleeps>>
sysVars   == <<numvfs, virtfn, netdir, sysCall>>
mapVars   == <<macFile, macCall>>
rtVars    == <<rtEndpoint, rtReachable, rtKnows, rtPc, rtTried, rtClient, rtErr, rtQueries, rtRet>>
validVars == <<macAddr, macValid>>
vars      == <<cacheVars, retryVars, sysVars, mapVars, rtVars, validVars>>

\* What an action of one component leaves alone
notCache == <<retryVars, sysVars, mapVars, rtVars, validVars>>
notRetry == <<cacheVars, sysVars, mapVars, rtVars, validVars>>
notSys   == <<cacheVars, retryVars, mapVars, rtVars, validVars>>
notMap   == <<cacheVars, retryVars, sysVars, rtVars, validVars>>
notRt    == <<cacheVars, retryVars, sysVars, mapVars, validVars>>
notValid == <<cacheVars, retryVars, sysVars, mapVars, rtVars>>

\* Values shared by the components
Nil    == "nil"           \* Go's nil: a nil error, a nil slice

(***************************************************************************)
(* Byte strings are sequences of byte values.                              *)
(***************************************************************************)
RECURSIVE Flatten(_)
Flatten(ss) == IF ss = <<>> THEN <<>> ELSE Head(ss) \o Flatten(Tail(ss))

RECURSIVE SeqsUpTo(_, _)
SeqsUpTo(S, n) ==
    IF n = 0 THEN {<<>>}
    ELSE LET shorter == SeqsUpTo(S, n - 1)
         IN  shorter \cup {Append(s, x) : s \in {t \in shorter : Len(t) = n - 1}, x \in S}

(***************************************************************************)
(* encoding/json.Marshal, on the Go values the model passes as conf.       *)
(* A value is [kind, v]: v holds the bytes of a string or of a []byte, the *)
(* number of an int, the truth value of a bool (1 or 0).                   *)
(***************************************************************************)
MaxPayloadLen == 1                    \* longest string / []byte payload
PayloadBytes  == {34}                 \* the byte payloads are made of: '"'
PayloadInts   == {-7}

Confs ==
    {[kind |-> "nil", v |-> <<>>], [kind |-> "chan", v |-> <<>>]}
    \cup {[kind |-> "int", v |-> <<n>>] : n \in PayloadInts}
    \cup {[kind |-> k, v |-> s] : k \in {"string", "bytes"}, s \in SeqsUpTo(PayloadBytes, MaxPayloadLen)}

Quote == 34

\* strconv.AppendInt(n, 10)
RECURSIVE Digits(_)
Digits(n) == IF n < 10 THEN <<48 + n>> ELSE Append(Digits(n \div 10), 48 + (n % 10))
FormatInt(n) == IF n < 0 THEN <<45>> \o Digits(-n) ELSE Digits(n)

HexDigit(d) == IF d < 10 THEN 48 + d ELSE 97 + (d - 10)

\* One byte of a Go string inside a JSON string, HTML escaping on (Marshal's default).
\* Covers the one-byte runes 0x20..0x7f.
EscapeByte(b) ==
    IF b \in {34, 92} THEN <<92, b>>
    ELSE IF b \in {38, 60, 62} THEN <<92, 117, 48, 48, HexDigit(b \div 16), HexDigit(b % 16)>>
    ELSE <<b>>

EncodeString(s) == <<Quote>> \o Flatten([i \in 1..Len(s) |-> EscapeByte(s[i])]) \o <<Quote>>

\* base64.StdEncoding
Base64Char(i) ==
    IF i < 26 THEN 65 + i
    ELSE IF i < 52 THEN 97 + (i - 26)
    ELSE IF i < 62 THEN 48 + (i - 52)
    ELSE IF i = 62 THEN 43 ELSE 47

RECURSIVE Base64(_)
Base64(bs) ==
    IF Len(bs) = 0 THEN <<>>
    ELSE IF Len(bs) = 1 THEN
        <<Base64Char(bs[1] \div 4), Base64Char((bs[1] % 4) * 16), 61, 61>>
    ELSE IF Len(bs) = 2 THEN
        <<Base64Char(bs[1] \div 4),
          Base64Char((bs[1] % 4) * 16 + bs[2] \div 16),
          Base64Char((bs[2] % 16) * 4), 61>>
    ELSE
        <<Base64Char(bs[1] \div 4),
          Base64Char((bs[1] % 4) * 16 + bs[2] \div 16),
          Base64Char((bs[2] % 16) * 4 + bs[3] \div 64),
          Base64Char(bs[3] % 64)>> \o Base64(SubSeq(bs, 4, Len(bs)))

\* json.Marshal(conf): [err, bytes]
Marshal(conf) ==
    CASE conf.kind = "nil"    -> [err |-> Nil, bytes |-> <<110, 117, 108, 108>>]
      [] conf.kind = "bool"   -> [err |-> Nil,
                                  bytes |-> IF conf.v[1] = 1 THEN <<116, 114, 117, 101>>
                                            ELSE <<102, 97, 108, 115, 101>>]
      [] conf.kind = "int"    -> [err |-> Nil, bytes |-> FormatInt(conf.v[1])]
      [] conf.kind = "string" -> [err |-> Nil, bytes |-> EncodeString(conf.v)]
      [] conf.kind = "bytes"  -> [err |-> Nil, bytes |-> <<Quote>> \o Base64(conf.v) \o <<Quote>>]
      [] OTHER                -> [err |-> "unsupported type", bytes |-> <<>>]

(***************************************************************************)
(* NetConf cache.  The disk holds the data directory and one file per      *)
(* entry path; it has no permission or I/O faults, so MkdirAll and         *)
(* WriteFile succeed and ReadFile and Stat fail only for a missing file.   *)
(***************************************************************************)
DataDir      == "/var/lib/cni/evpn"
ContainerIDs == {"a", "a-b"}
IfNames      == {"c", "b-c"}

\* strings.Join([]string{cid, podIfName}, "-")
CRef(cid, podIfName) == cid \o "-" \o podIfName
\* filepath.Join(dataDir, containerID), for names without separators
EntryPath(dataDir, containerID) == dataDir \o "/" \o containerID

EntryPaths == {EntryPath(DataDir, CRef(c, i)) : c \in ContainerIDs, i \in IfNames}

Absent     == [exists |-> FALSE, data |-> <<>>]
File(data) == [exists |-> TRUE, data |-> data]

\* Mutant of saveScratchNetConf: the file is opened for appending, not truncated
saveScratchNetConf_Append(containerID, dataDir, netconf) ==
    LET path == EntryPath(dataDir, containerID)
    IN  [err       |-> Nil,
         dirExists |-> TRUE,
         files     |-> [files EXCEPT ![path] = File(files[path].data \o netconf)]]

\* saveScratchNetConf: [err, dirExists, files] after the call
saveScratchNetConf(containerID, dataDir, netconf) ==
    LET path == EntryPath(dataDir, containerID)
    IN  [err       |-> Nil,
         dirExists |-> TRUE,
         files     |-> [files EXCEPT ![path] = File(netconf)]]

\* SaveNetConf: [err, dirExists, files] after the call
SaveNetConf(cid, dataDir, podIfName, conf) ==
    LET m == Marshal(conf)
    IN  IF m.err # Nil
        THEN [err |-> "error serializing delegate netconf", dirExists |-> dirExists, files |-> files]
        ELSE saveScratchNetConf(CRef(cid, podIfName), dataDir, m.bytes)

\* ReadScratchNetConf: [err, isNil, data]
ReadScratchNetConf(cRefPath) ==
    IF files[cRefPath].exists
    THEN [err |-> Nil, isNil |-> FALSE, data |-> files[cRefPath].data]
    ELSE [err |-> "failed to read container data", isNil |-> TRUE, data |-> <<>>]

\* Mutant of CleanCachedNetConf: every Stat error is returned, ENOENT included
CleanCachedNetConf_NoIsNotExist(cRefPath) ==
    IF ~files[cRefPath].exists
    THEN [err |-> "error stating cached NetConf file", files |-> files]
    ELSE [err |-> Nil, files |-> [files EXCEPT ![cRefPath] = Absent]]

\* CleanCachedNetConf: [err, files] after the call.
\* The modelled disk has no permission or I/O faults: Stat fails only with ENOENT
\* and Remove of an existing file succeeds.
CleanCachedNetConf(cRefPath) ==
    IF ~files[cRefPath].exists
    THEN [err |-> Nil, files |-> files]
    ELSE [err |-> Nil, files |-> [files EXCEPT ![cRefPath] = Absent]]

NilConf == [kind |-> "nil", v |-> <<>>]

CacheNoCall ==
    [op |-> "none", cid |-> "", ifName |-> "", conf |-> NilConf, path |-> "",
     existed |-> FALSE, err |-> Nil, isNil |-> TRUE, data |-> <<>>]

CacheInit ==
    /\ dirExists = FALSE
    /\ files = [p \in EntryPaths |-> Absent]
    /\ cacheCall = CacheNoCall

CacheIdle ==
    /\ dirExists = FALSE
    /\ files = <<>>
    /\ cacheCall = CacheNoCall

Save(cid, podIfName, conf) ==
    LET r == SaveNetConf(cid, DataDir, podIfName, conf)
    IN  /\ dirExists' = r.dirExists
        /\ files' = r.files
        /\ cacheCall' = [op |-> "Save", cid |-> cid, ifName |-> podIfName, conf |-> conf,
                         path |-> EntryPath(DataDir, CRef(cid, podIfName)),
                         existed |-> files[EntryPath(DataDir, CRef(cid, podIfName))].exists,
                         err |-> r.err, isNil |-> TRUE, data |-> <<>>]
        /\ UNCHANGED notCache

Load(path) ==
    LET r == ReadScratchNetConf(path)
    IN  /\ cacheCall' = [op |-> "Load", cid |-> "", ifName |-> "", conf |-> NilConf,
                         path |-> path, existed |-> files[path].exists, err |-> r.err, isNil |-> r.isNil, data |-> r.data]
        /\ UNCHANGED <<dirExists, files, notCache>>

Clear(path) ==
    LET r == CleanCachedNetConf(path)
    IN  /\ files' = r.files
        /\ cacheCall' = [op |-> "Clear", cid |-> "", ifName |-> "", conf |-> NilConf,
                         path |-> path, existed |-> files[path].exists, err |-> r.err, isNil |-> TRUE, data |-> <<>>]
        /\ UNCHANGED <<dirExists, notCache>>

CacheNext ==
    \/ \E cid \in ContainerIDs, i \in IfNames, conf \in Confs : Save(cid, i, conf)
    \/ \E p \in EntryPaths : Load(p)
    \/ \E p \in EntryPaths : Clear(p)

(***************************************************************************)
(* Retry(retries, sleep, f): one action per step of the loop               *)
(*     err := error(nil)                                                   *)
(*     for retry := 0; retry < retries; retry++ {                          *)
(*         err = f(); if err == nil { return nil }; time.Sleep(sleep) }    *)
(*     return err                                                          *)
(***************************************************************************)
MaxRetries    == 4                    \* largest maxAttempts tried
MaxNegRetries == 2                    \* maxAttempts goes down to -MaxNegRetries
Errors        == {"e1", "e2"}         \* the errors f may return

RetryInit ==
    /\ retries \in (0 - MaxNegRetries)..MaxRetries
    /\ retry = 0
    /\ retryErr = Nil
    /\ retryPc = "for"
    /\ retryRet = Nil
    /\ calls = <<>>
    /\ sleeps = <<>>

RetryIdle ==
    /\ retries = 0 /\ retry = 0 /\ retryErr = Nil /\ retryPc = "idle"
    /\ retryRet = Nil /\ calls = <<>> /\ sleeps = <<>>

\* Mutant of RetryLoop: the loop condition is retry <= retries
RetryLoop_OffByOne ==
    /\ retryPc = "for"
    /\ IF retry <= retries
       THEN retryPc' = "call" /\ UNCHANGED retryRet
       ELSE retryPc' = "done" /\ retryRet' = retryErr
    /\ UNCHANGED <<retries, retry, retryErr, calls, sleeps, notRetry>>

\* The loop condition retry < retries, and the return err after the loop
RetryLoop ==
    /\ retryPc = "for"
    /\ IF retry < retries
       THEN retryPc' = "call" /\ UNCHANGED retryRet
       ELSE retryPc' = "done" /\ retryRet' = retryErr
    /\ UNCHANGED <<retries, retry, retryErr, calls, sleeps, notRetry>>

\* Mutant of RetryCall: a success does not leave the loop
RetryCall_NoReturn(e) ==
    /\ retryPc = "call"
    /\ retryErr' = e
    /\ calls' = Append(calls, e)
    /\ retryPc' = "sleep" /\ UNCHANGED retryRet
    /\ UNCHANGED <<retries, retry, sleeps, notRetry>>

\* err = f(); if err == nil { return nil }, where f returns e
RetryCall(e) ==
    /\ retryPc = "call"
    /\ retryErr' = e
    /\ calls' = Append(calls, e)
    /\ IF e = Nil
       THEN retryPc' = "done" /\ retryRet' = Nil
       ELSE retryPc' = "sleep" /\ UNCHANGED retryRet
    /\ UNCHANGED <<retries, retry, sleeps, notRetry>>

\* time.Sleep(sleep); retry++
RetrySleep ==
    /\ retryPc = "sleep"
    /\ sleeps' = Append(sleeps, Len(calls))
    /\ retry' = retry + 1
    /\ retryPc' = "for"
    /\ UNCHANGED <<retries, retryErr, retryRet, calls, notRetry>>

RetryNext ==
    \/ RetryLoop
    \/ \E e \in Errors \cup {Nil} : RetryCall(e)
    \/ RetrySleep

(***************************************************************************)
(* sysfs device resolver.  The tree under NetDirectory and SysBusPci is    *)
(* the environment: the kernel (or whoever provides the tree) changes it   *)
(* between calls, and every call reads it anew.                            *)
(*   numvfs[pf]     the file <NetDirectory>/<pf>/device/sriov_numvfs       *)
(*   virtfn[pf][i]  the entry <NetDirectory>/<pf>/device/virtfn<i>         *)
(*   netdir[addr]   the entry <SysBusPci>/<addr>/net, which is also what   *)
(*                  virtfn<i>/net is when virtfn<i> links to <addr>        *)
(***************************************************************************)
MaxVFs  == 2                          \* virtfn0 .. virtfn<MaxVFs-1> may exist
PfNames == {"eth0"}                   \* the PFs of the tree
NoPf    == "eth9"                     \* a name with no entry under NetDirectory
DigitChars == <<"0", "1", "2", "3", "4", "5", "6", "7", "8", "9">>

VfIndexes == 0..(MaxVFs - 1)
\* The PCI address of VF i: the kernel gives every VF its own
VfAddr(i) == "0000:01:10." \o DigitChars[i + 1]
PfAddr    == "0000:01:00.0"
VfAddrs   == {VfAddr(i) : i \in VfIndexes}
PciAddrs  == VfAddrs \cup {PfAddr}

\* A directory entry that may be a symbolic link; a link's target is a path,
\* the sequence of its elements
NoLink       == [kind |-> "none", target |-> <<>>]
NotLink      == [kind |-> "dir", target |-> <<>>]
Link(target) == [kind |-> "link", target |-> target]

\* filepath.Base of a path given by its elements
Base(path) == IF path = <<>> THEN "." ELSE path[Len(path)]

\* The node at <NetDirectory>/<pf>/device/sriov_numvfs: nothing, a file that
\* can be read, or a node os.Lstat finds and os.ReadFile cannot read (a
\* directory, a file without read permission).  A file's content is the
\* sequence of runes that decoding its bytes as UTF-8 gives: "1\n" is <<49, 10>>
NumvfsAbsent     == [kind |-> "none", data |-> <<>>]
NumvfsUnreadable == [kind |-> "unreadable", data |-> <<>>]
NumvfsFile(data) == [kind |-> "file", data |-> data]

\* unicode.IsSpace: '\t', '\n', '\v', '\f', '\r', ' ', U+0085, U+00A0 and the
\* White_Space runes above Latin-1 (U+1680, U+2000..U+200A, U+2028, U+2029,
\* U+202F, U+205F, U+3000)
WhiteSpace ==
    (9..13) \cup {32, 133, 160}
    \cup {5760} \cup (8192..8202) \cup {8232, 8233, 8239, 8287, 12288}

\* strings.TrimSpace
RECURSIVE TrimLeft(_)
TrimLeft(cs) == IF cs # <<>> /\ Head(cs) \in WhiteSpace THEN TrimLeft(Tail(cs)) ELSE cs
RECURSIVE TrimRight(_)
TrimRight(cs) ==
    IF cs # <<>> /\ cs[Len(cs)] \in WhiteSpace THEN TrimRight(SubSeq(cs, 1, Len(cs) - 1)) ELSE cs
TrimSpace(cs) == TrimRight(TrimLeft(cs))

\* The runes '+', '-' and '0' .. '9'
PlusSign    == 43
MinusSign   == 45
IsDigit(c)  == c \in 48..57
DigitVal(c) == c - 48
Numeral(ds) == [k \in 1..Len(ds) |-> ds[k] + 48]

RECURSIVE ParseDigits(_, _)
ParseDigits(cs, acc) ==
    IF cs = <<>> THEN acc ELSE ParseDigits(Tail(cs), acc * 10 + DigitVal(Head(cs)))

\* The int of the build is 64 bits wide.  math.MaxInt64 and math.MinInt64 are
\* written as their numerals: the magnitudes 2^63 - 1 and 2^63 as digit runes,
\* and the values strconv.Atoi returns with a range error as strings
MaxIntDigits == Numeral(<<9, 2, 2, 3, 3, 7, 2, 0, 3, 6, 8, 5, 4, 7, 7, 5, 8, 0, 7>>)
MinIntDigits == Numeral(<<9, 2, 2, 3, 3, 7, 2, 0, 3, 6, 8, 5, 4, 7, 7, 5, 8, 0, 8>>)
MaxInt       == "9223372036854775807"
MinInt       == "-9223372036854775808"

RECURSIVE StripZeros(_)
StripZeros(ds) == IF ds # <<>> /\ Head(ds) = 48 THEN StripZeros(Tail(ds)) ELSE ds

\* The magnitude written by the digits ds is greater than the one written by limit
Exceeds(ds, limit) ==
    LET m == StripZeros(ds)
    IN  \/ Len(m) > Len(limit)
        \/ /\ Len(m) = Len(limit)
           /\ \E k \in 1..Len(m) :
                  /\ m[k] > limit[k]
                  /\ \A j \in 1..(k - 1) : m[j] = limit[j]

\* The magnitude 2^64 - 1 of math.MaxUint64 as digit runes
MaxUintDigits ==
    Numeral(<<1, 8, 4, 4, 6, 7, 4, 4, 0, 7, 3, 7, 0, 9, 5, 5, 1, 6, 1, 5>>)

\* The digits that precede the first rune of cs that is not a digit
RECURSIVE DigitPrefix(_)
DigitPrefix(cs) ==
    IF cs # <<>> /\ IsDigit(Head(cs)) THEN <<Head(cs)>> \o DigitPrefix(Tail(cs)) ELSE <<>>

\* strconv.Atoi: an optional sign and at least one decimal digit, and a value
\* an int can hold; [err, n].  The runes after the sign are read from left to
\* right: a rune that is not a digit is a syntax error, unless the digits
\* before it have already overflowed 64 unsigned bits, which is a range
\* error.  A value out of range comes back as the nearest int together with
\* the range error.
Atoi(cs) ==
    LET signed == cs # <<>> /\ Head(cs) \in {PlusSign, MinusSign}
        neg    == signed /\ Head(cs) = MinusSign
        digits == IF signed THEN Tail(cs) ELSE cs
        prefix == DigitPrefix(digits)
        range  == [err |-> "value out of range", n |-> IF neg THEN MinInt ELSE MaxInt]
    IN  IF Exceeds(prefix, MaxUintDigits)
        THEN range
        ELSE IF digits = <<>> \/ prefix # digits
        THEN [err |-> "invalid syntax", n |-> 0]
        ELSE IF Exceeds(digits, IF neg THEN MinIntDigits ELSE MaxIntDigits)
        THEN range
        ELSE [err |-> Nil,
              n   |-> IF neg THEN 0 - ParseDigits(digits, 0) ELSE ParseDigits(digits, 0)]

\* Twenty digits 9, a numeral above 2^64 - 1
TwentyNines == [k \in 1..20 |-> 57]

\* What the sriov_numvfs file may hold: the kernel's "<n>\n", and the
\* contents of a tree that is not the kernel's: "", "\n", "-1\n", "a\n",
\* "\f1\n", "1\v\n", "+1", "1" between two U+00A0, the numerals of 2^63 and
\* -(2^63 + 1), and numerals with a rune that is not a digit after them:
\* "99999999999999999999x", "-99999999999999999999-",
\* "99999999999999999999 1\n" and "18446744073709551615x"
NumvfsContents ==
    {<<48 + n, 10>> : n \in 0..MaxVFs}
    \cup {<<>>, <<10>>, <<MinusSign, 49, 10>>, <<97, 10>>}
    \cup {<<12, 49, 10>>, <<49, 11, 10>>, <<PlusSign, 49>>, <<160, 49, 160>>}
    \cup {MinIntDigits \o <<10>>,
          <<MinusSign>> \o SubSeq(MinIntDigits, 1, 18) \o <<57, 10>>}
    \cup {TwentyNines \o <<120>>,
          <<MinusSign>> \o TwentyNines \o <<MinusSign>>,
          TwentyNines \o <<32, 49, 10>>,
          MaxUintDigits \o <<120>>}

\* GetSriovNumVfs: [err, n]
GetSriovNumVfs(ifName) ==
    LET node == IF ifName \in DOMAIN numvfs THEN numvfs[ifName] ELSE NumvfsAbsent
    IN  IF node.kind = "none"
        THEN [err |-> "failed to open the sriov_numfs of device", n |-> 0]
        ELSE IF node.kind # "file"
        THEN [err |-> "failed to read the sriov_numfs of device", n |-> 0]
        ELSE IF Len(node.data) = 0
        THEN [err |-> "no data in the file", n |-> 0]
        ELSE LET a == Atoi(TrimSpace(node.data))
             IN  IF a.err # Nil
                 THEN [err |-> "failed to convert sriov_numfs(byte value) to int of device", n |-> a.n]
                 ELSE [err |-> Nil, n |-> a.n]

\* os.Lstat of <NetDirectory>/<pf>/device/virtfn<vf>: the entry, NoLink when absent
VirtfnEntry(pfName, vf) ==
    IF pfName \in DOMAIN virtfn /\ vf \in DOMAIN virtfn[pfName] THEN virtfn[pfName][vf] ELSE NoLink

\* The loop of GetVfid from index vf on: [err, id]
RECURSIVE VfidScan(_, _, _, _)
VfidScan(addr, pfName, vf, vfTotal) ==
    IF vf >= vfTotal
    THEN [err |-> "unable to get VF ID", id |-> 0]
    ELSE LET e == VirtfnEntry(pfName, vf)
         IN  IF e.kind = "link" /\ Base(e.target) = addr
             THEN [err |-> Nil, id |-> vf]
             ELSE VfidScan(addr, pfName, vf + 1, vfTotal)

\* Mutant of GetVfid: the scan starts at virtfn1
GetVfid_SkipFirst(addr, pfName) ==
    LET t == GetSriovNumVfs(pfName)
    IN  IF t.err # Nil THEN [err |-> t.err, id |-> 0] ELSE VfidScan(addr, pfName, 1, t.n)

\* GetVfid: [err, id]
GetVfid(addr, pfName) ==
    LET t == GetSriovNumVfs(pfName)
    IN  IF t.err # Nil THEN [err |-> t.err, id |-> 0] ELSE VfidScan(addr, pfName, 0, t.n)

\* GetPciAddress: [err, pciaddr]
GetPciAddress(ifName, vf) ==
    LET e == VirtfnEntry(ifName, vf)
    IN  IF e.kind = "none"
        THEN [err |-> "can't get the symbolic link of virtfn dir", pciaddr |-> ""]
        ELSE IF e.kind # "link"
        THEN [err |-> "no symbolic link for the virtfn dir", pciaddr |-> ""]
        ELSE [err |-> Nil, pciaddr |-> Base(e.target)]

\* The names a net/ directory may hold, in the order os.ReadDir lists them
\* (sorted by file name)
NetDevNames == <<"ens1f0v0", "eth1">>

NoDir      == [kind |-> "none", names |-> {}]
NotDir     == [kind |-> "file", names |-> {}]
Dir(names) == [kind |-> "dir", names |-> names]
NetDirs    == {NoDir, NotDir} \cup {Dir(ns) : ns \in SUBSET {NetDevNames[k] : k \in 1..Len(NetDevNames)}}

\* os.ReadDir of a directory holding names
ReadDir(names) == SelectSeq(NetDevNames, LAMBDA n : n \in names)

\* The entry <SysBusPci>/<pciAddr>/net
NetDirOf(pciAddr) == IF pciAddr \in DOMAIN netdir THEN netdir[pciAddr] ELSE NoDir

\* The entry <NetDirectory>/<pf>/device/virtfn<vfID>/net: the path goes through
\* the virtfn link into the VF's device directory.  A virtfn<vfID> that is
\* not a link is a directory that holds no net entry.
NetDirOfVf(pfName, vfID) ==
    LET e == VirtfnEntry(pfName, vfID)
    IN  IF e.kind = "link" THEN NetDirOf(Base(e.target)) ELSE NoDir

\* Mutant of GetVFLinkNames: the last entry is returned
GetVFLinkNames_Last(pciAddr) ==
    LET d == NetDirOf(pciAddr)
    IN  IF d.kind = "none" THEN [err |-> "lstat: no such file or directory", name |-> ""]
        ELSE IF d.kind # "dir" THEN [err |-> "failed to read net dir of the device", name |-> ""]
        ELSE IF Len(ReadDir(d.names)) = 0 THEN [err |-> "sysfs path has no entries", name |-> ""]
        ELSE [err |-> Nil, name |-> ReadDir(d.names)[Len(ReadDir(d.names))]]

\* GetVFLinkNames: [err, name]
GetVFLinkNames(pciAddr) ==
    LET d == NetDirOf(pciAddr)
    IN  IF d.kind = "none" THEN [err |-> "lstat: no such file or directory", name |-> ""]
        ELSE IF d.kind # "dir" THEN [err |-> "failed to read net dir of the device", name |-> ""]
        ELSE IF Len(ReadDir(d.names)) = 0 THEN [err |-> "sysfs path has no entries", name |-> ""]
        ELSE [err |-> Nil, name |-> ReadDir(d.names)[1]]

\* GetVFLinkNamesFromVFID: [err, isNil, names]
GetVFLinkNamesFromVFID(pfName, vfID) ==
    LET d == NetDirOfVf(pfName, vfID)
    IN  IF d.kind = "none" THEN [err |-> "lstat: no such file or directory", isNil |-> TRUE, names |-> <<>>]
        ELSE IF d.kind # "dir" THEN [err |-> "failed to read the virtfn dir of the device", isNil |-> TRUE, names |-> <<>>]
        ELSE [err |-> Nil, isNil |-> FALSE, names |-> ReadDir(d.names)]

SysNoCall ==
    [op |-> "none", pf |-> "", vf |-> 0, addr |-> "", err |-> Nil, n |-> 0, out |-> "",
     isNil |-> TRUE, names |-> <<>>]

\* A PF with SR-IOV off and VF devices without a netdevice
SysInit ==
    /\ numvfs = [pf \in PfNames |-> NumvfsFile(<<48, 10>>)]
    /\ virtfn = [pf \in PfNames |-> [i \in VfIndexes |-> NoLink]]
    /\ netdir = [a \in VfAddrs |-> NoDir]
    /\ sysCall = SysNoCall

SysIdle ==
    /\ numvfs = <<>> /\ virtfn = <<>> /\ netdir = <<>> /\ sysCall = SysNoCall

\* The environment rewrites, removes or replaces sriov_numvfs
SysWriteNumvfs(pf, f) ==
    /\ numvfs' = [numvfs EXCEPT ![pf] = f]
    /\ sysCall' = SysNoCall
    /\ UNCHANGED <<virtfn, netdir, notSys>>

\* The environment creates, replaces or removes virtfn<i>; a link leads to VF i's device
SysSetVirtfn(pf, i, e) ==
    /\ virtfn' = [virtfn EXCEPT ![pf][i] = e]
    /\ sysCall' = SysNoCall
    /\ UNCHANGED <<numvfs, netdir, notSys>>

\* The environment changes the net/ entry of a device: a driver binds or
\* unbinds, a netdevice is renamed or moves to another namespace
SysSetNetDir(addr, d) ==
    /\ netdir' = [netdir EXCEPT ![addr] = d]
    /\ sysCall' = SysNoCall
    /\ UNCHANGED <<numvfs, virtfn, notSys>>

CallGetSriovNumVfs(pf) ==
    LET r == GetSriovNumVfs(pf)
    IN  /\ sysCall' = [SysNoCall EXCEPT !.op = "GetSriovNumVfs", !.pf = pf, !.err = r.err, !.n = r.n]
        /\ UNCHANGED <<numvfs, virtfn, netdir, notSys>>

CallGetVfid(addr, pf) ==
    LET r == GetVfid(addr, pf)
    IN  /\ sysCall' = [SysNoCall EXCEPT !.op = "GetVfid", !.pf = pf, !.addr = addr, !.err = r.err, !.n = r.id]
        /\ UNCHANGED <<numvfs, virtfn, netdir, notSys>>

CallGetPciAddress(pf, vf) ==
    LET r == GetPciAddress(pf, vf)
    IN  /\ sysCall' = [SysNoCall EXCEPT !.op = "GetPciAddress", !.pf = pf, !.vf = vf, !.err = r.err, !.out = r.pciaddr]
        /\ UNCHANGED <<numvfs, virtfn, netdir, notSys>>

CallGetVFLinkNames(addr) ==
    LET r == GetVFLinkNames(addr)
    IN  /\ sysCall' = [SysNoCall EXCEPT !.op = "GetVFLinkNames", !.addr = addr, !.err = r.err, !.out = r.name]
        /\ UNCHANGED <<numvfs, virtfn, netdir, notSys>>

CallGetVFLinkNamesFromVFID(pf, vf) ==
    LET r == GetVFLinkNamesFromVFID(pf, vf)
    IN  /\ sysCall' = [SysNoCall EXCEPT !.op = "GetVFLinkNamesFromVFID", !.pf = pf, !.vf = vf,
                                        !.err = r.err, !.isNil = r.isNil, !.names = r.names]
        /\ UNCHANGED <<numvfs, virtfn, netdir, notSys>>

NumvfsNodes == {NumvfsAbsent, NumvfsUnreadable} \cup {NumvfsFile(c) : c \in NumvfsContents}

VirtfnEntries(i) == {NoLink, NotLink, Link(<<"..", VfAddr(i)>>)}

\* PF and VF resolution: sriov_numvfs and the virtfn links
SysNext ==
    \/ \E pf \in PfNames, f \in NumvfsNodes : SysWriteNumvfs(pf, f)
    \/ \E pf \in PfNames, i \in VfIndexes : \E e \in VirtfnEntries(i) : SysSetVirtfn(pf, i, e)
    \/ \E pf \in PfNames \cup {NoPf} : CallGetSriovNumVfs(pf)
    \/ \E addr \in PciAddrs, pf \in PfNames \cup {NoPf} : CallGetVfid(addr, pf)
    \/ \E pf \in PfNames \cup {NoPf}, vf \in 0..MaxVFs : CallGetPciAddress(pf, vf)

\* netdevice names: the virtfn links and the net/ directories
NetDevNext ==
    \/ \E pf \in PfNames, i \in VfIndexes : \E e \in VirtfnEntries(i) : SysSetVirtfn(pf, i, e)
    \/ \E addr \in VfAddrs, d \in NetDirs : SysSetNetDir(addr, d)
    \/ \E addr \in PciAddrs : CallGetVFLinkNames(addr)
    \/ \E pf \in PfNames \cup {NoPf}, vf \in 0..MaxVFs : CallGetVFLinkNamesFromVFID(pf, vf)

(***************************************************************************)
(* Container runtime client: GetContainerPid and getRuntimeService, one    *)
(* action per connection attempt and one for the status query.  Which      *)
(* endpoints accept a connection (rtReachable) and which runtimes know the *)
(* container (rtKnows) is the environment, fixed for the call.             *)
(***************************************************************************)
defaultRuntimeEndpoints ==
    <<"unix:///run/containerd/containerd.sock", "unix:///run/crio/crio.sock",
      "unix:///var/run/cri-dockerd.sock">>
CustomEndpoint == "unix:///run/custom/cri.sock"
Endpoints == {defaultRuntimeEndpoints[k] : k \in 1..Len(defaultRuntimeEndpoints)} \cup {CustomEndpoint}

\* res.GetInfo() of the runtime behind an endpoint
SandboxInfo(ep) == [runtime |-> ep]
NoInfo          == [runtime |-> ""]
RtNoRet         == [err |-> Nil, isNil |-> TRUE, info |-> NoInfo]

RtInit ==
    /\ rtEndpoint \in {""} \cup Endpoints
    /\ rtReachable \in SUBSET Endpoints
    /\ rtKnows \in SUBSET Endpoints
    /\ rtPc = "connect"
    /\ rtTried = <<>>
    /\ rtClient = Nil
    /\ rtErr = Nil
    /\ rtQueries = <<>>
    /\ rtRet = RtNoRet

RtIdle ==
    /\ rtEndpoint = "" /\ rtReachable = {} /\ rtKnows = {} /\ rtPc = "idle"
    /\ rtTried = <<>> /\ rtClient = Nil /\ rtErr = Nil /\ rtQueries = <<>> /\ rtRet = RtNoRet

\* remote.NewRemoteRuntimeService(endPoint, t, tp): [res, err]
NewRemoteRuntimeService(endPoint) ==
    IF endPoint \in rtReachable
    THEN [res |-> endPoint, err |-> Nil]
    ELSE [res |-> Nil, err |-> "connect " \o endPoint]

\* Mutant of RtProbe: no break after a successful connection
RtProbe_NoBreak ==
    /\ rtPc = "connect" /\ rtEndpoint = ""
    /\ LET k == Len(rtTried) + 1
           r == NewRemoteRuntimeService(defaultRuntimeEndpoints[k])
       IN  /\ rtTried' = Append(rtTried, defaultRuntimeEndpoints[k])
           /\ rtClient' = r.res
           /\ rtErr' = r.err
           /\ rtPc' = IF k = Len(defaultRuntimeEndpoints) THEN "status" ELSE "connect"
    /\ UNCHANGED <<rtEndpoint, rtReachable, rtKnows, rtQueries, rtRet, notRt>>

\* getRuntimeService with runtimeEndpoint == "": one iteration of the loop over
\* defaultRuntimeEndpoints; the loop ends by break or after the last endpoint
RtProbe ==
    /\ rtPc = "connect" /\ rtEndpoint = ""
    /\ LET k == Len(rtTried) + 1
           r == NewRemoteRuntimeService(defaultRuntimeEndpoints[k])
       IN  /\ rtTried' = Append(rtTried, defaultRuntimeEndpoints[k])
           /\ rtClient' = r.res
           /\ rtErr' = r.err
           /\ rtPc' = IF r.err = Nil \/ k = Len(defaultRuntimeEndpoints) THEN "status" ELSE "connect"
    /\ UNCHANGED <<rtEndpoint, rtReachable, rtKnows, rtQueries, rtRet, notRt>>

\* getRuntimeService with a runtimeEndpoint
RtDial ==
    /\ rtPc = "connect" /\ rtEndpoint # ""
    /\ LET r == NewRemoteRuntimeService(rtEndpoint)
       IN  /\ rtTried' = Append(rtTried, rtEndpoint)
           /\ rtClient' = r.res
           /\ rtErr' = r.err
           /\ rtPc' = "status"
    /\ UNCHANGED <<rtEndpoint, rtReachable, rtKnows, rtQueries, rtRet, notRt>>

\* GetContainerPid after getRuntimeService has returned
RtStatus ==
    /\ rtPc = "status"
    /\ IF rtErr # Nil
       THEN /\ rtRet' = [err |-> "could not initialize container runtime client", isNil |-> TRUE, info |-> NoInfo]
            /\ UNCHANGED rtQueries
       ELSE /\ rtQueries' = Append(rtQueries, rtClient)
            /\ rtRet' = IF rtClient \in rtKnows
                        THEN [err |-> Nil, isNil |-> FALSE, info |-> SandboxInfo(rtClient)]
                        ELSE [err |-> "failed to get ContainerStatus from runtime", isNil |-> TRUE, info |-> NoInfo]
    /\ rtPc' = "done"
    /\ UNCHANGED <<rtEndpoint, rtReachable, rtKnows, rtTried, rtClient, rtErr, notRt>>

RtNext == RtProbe \/ RtDial \/ RtStatus

(***************************************************************************)
(* PCI-to-MAC mapping store.  The mapping file is provisioned by the       *)
(* administrator; RetrieveMacFromPci only reads it.                        *)
(* A file's content is a JSON text, held as what its syntax is: valid or   *)
(* not, the kind of its top-level value and, for an object, its members in *)
(* the order of the text, each a key and a value that is a string, null or *)
(* a number.                                                               *)
(***************************************************************************)
MaxMembers == 2                       \* most members of the mapping object
MacKeys    == {"0000:01:10.0", "0000:01:10.1"}          \* keys of the mapping file
MacLookups == MacKeys \cup {"0000:02:00.0"}              \* addresses looked up
MacStrings == {"00:11:22:33:44:55", "66:77:88:99:aa:bb"}

JsonString(str) == [t |-> "string", s |-> str]
JsonNull        == [t |-> "null", s |-> ""]
JsonNumber      == [t |-> "number", s |-> "1"]
JsonValues      == {JsonString(str) : str \in MacStrings} \cup {JsonNull, JsonNumber}
JsonMembers     == {[key |-> k, val |-> v] : k \in MacKeys, v \in JsonValues}

JsonDoc(valid, top, members) == [valid |-> valid, top |-> top, members |-> members]
JsonDocs ==
    {JsonDoc(FALSE, "object", <<>>)}                                    \* e.g. a truncated text
    \cup {JsonDoc(TRUE, top, <<>>) : top \in {"null", "array", "string"}}
    \cup {JsonDoc(TRUE, "object", ms) : ms \in SeqsUpTo(JsonMembers, MaxMembers)}

EmptyDoc == JsonDoc(TRUE, "null", <<>>)
MacFiles ==
    {[kind |-> k, doc |-> EmptyDoc] : k \in {"none", "staterr", "noperm", "dir"}}
    \cup {[kind |-> "file", doc |-> d] : d \in JsonDocs}

\* m with key set to str
MapPut(m, key, str) == [k \in DOMAIN m \cup {key} |-> IF k = key THEN str ELSE m[k]]

\* The object decoder's loop over the members: a string is stored under its
\* key, null stores the zero value "", any other value stores "" and records
\* a type error; decoding goes on after a type error.  [err, map]
RECURSIVE DecodeMembers(_, _)
DecodeMembers(ms, acc) ==
    IF ms = <<>> THEN acc
    ELSE LET mem == Head(ms)
         IN  DecodeMembers(Tail(ms),
                 IF mem.val.t = "string"
                 THEN [err |-> acc.err, map |-> MapPut(acc.map, mem.key, mem.val.s)]
                 ELSE IF mem.val.t = "null"
                 THEN [err |-> acc.err, map |-> MapPut(acc.map, mem.key, "")]
                 ELSE [err |-> IF acc.err = Nil THEN "cannot unmarshal into Go value of type string" ELSE acc.err,
                       map |-> MapPut(acc.map, mem.key, "")])

\* json.Unmarshal(jsonBytes, &pciToMacMap) with pciToMacMap an empty map: [err, map]
Unmarshal(doc) ==
    IF ~doc.valid THEN [err |-> "syntax error", map |-> <<>>]
    ELSE IF doc.top = "null" THEN [err |-> Nil, map |-> <<>>]
    ELSE IF doc.top = "object" THEN DecodeMembers(doc.members, [err |-> Nil, map |-> <<>>])
    ELSE [err |-> "cannot unmarshal into Go value of type map[string]string", map |-> <<>>]

\* PathExists: [exists, err]
PathExists(f) ==
    IF f.kind = "none" THEN [exists |-> FALSE, err |-> Nil]
    ELSE IF f.kind = "staterr" THEN [exists |-> FALSE, err |-> "stat: permission denied"]
    ELSE [exists |-> TRUE, err |-> Nil]

\* Mutant of RetrieveMacFromPci: the map is indexed without the presence check
RetrieveMacFromPci_NoPresenceCheck(pciAddr, f) ==
    LET e == PathExists(f)
        u == Unmarshal(f.doc)
    IN  IF e.err # Nil THEN [mac |-> "", err |-> "error checking pciToMac file"]
        ELSE IF ~e.exists THEN [mac |-> "", err |-> "pciToMac file is not found in the path"]
        ELSE IF f.kind = "noperm" THEN [mac |-> "", err |-> "open pciToMac file"]
        ELSE IF f.kind = "dir" THEN [mac |-> "", err |-> "load pciToMac file"]
        ELSE IF u.err # Nil THEN [mac |-> "", err |-> "parse pciToMac file"]
        ELSE [mac |-> IF pciAddr \in DOMAIN u.map THEN u.map[pciAddr] ELSE "", err |-> Nil]

\* RetrieveMacFromPci(pciAddr, pciToMacFile) with f the state of pciToMacFile: [mac, err]
RetrieveMacFromPci(pciAddr, f) ==
    LET e == PathExists(f)
        u == Unmarshal(f.doc)
    IN  IF e.err # Nil THEN [mac |-> "", err |-> "error checking pciToMac file"]
        ELSE IF ~e.exists THEN [mac |-> "", err |-> "pciToMac file is not found in the path"]
        ELSE IF f.kind = "noperm" THEN [mac |-> "", err |-> "open pciToMac file"]
        ELSE IF f.kind = "dir" THEN [mac |-> "", err |-> "load pciToMac file"]
        ELSE IF u.err # Nil THEN [mac |-> "", err |-> "parse pciToMac file"]
        ELSE IF pciAddr \notin DOMAIN u.map
        THEN [mac |-> "", err |-> "the pci Address is not found in the pciToMac File"]
        ELSE [mac |-> u.map[pciAddr], err |-> Nil]

MapNoCall == [op |-> "none", addr |-> "", mac |-> "", err |-> Nil]

MapInit ==
    /\ macFile = [kind |-> "none", doc |-> EmptyDoc]
    /\ macCall = MapNoCall

MapIdle ==
    /\ macFile = [kind |-> "idle", doc |-> EmptyDoc]
    /\ macCall = MapNoCall

\* The administrator provisions, replaces or removes the mapping file
MapProvision(f) ==
    /\ macFile' = f
    /\ macCall' = MapNoCall
    /\ UNCHANGED notMap

LookupMAC(pciAddr) ==
    LET r == RetrieveMacFromPci(pciAddr, macFile)
    IN  /\ macCall' = [op |-> "RetrieveMacFromPci", addr |-> pciAddr, mac |-> r.mac, err |-> r.err]
        /\ UNCHANGED <<macFile, notMap>>

MapNext ==
    \/ \E f \in MacFiles : MapProvision(f)
    \/ \E a \in MacLookups : LookupMAC(a)

(***************************************************************************)
(* IsValidMACAddress, applied to hardware addresses of every length up to  *)
(* MaxMacLen                                                               *)
(***************************************************************************)
MaxMacLen == 7                        \* longest address checked
MacBytes  == {0, 1, 255}              \* the bytes addresses are made of
MacLen    == 6

invalidMACAddresses == << <<0, 0, 0, 0, 0, 0>>, <<255, 255, 255, 255, 255, 255>> >>

\* Mutant of IsValidMACAddress: the length is not checked
IsValidMACAddress_NoLength(addr) ==
    ~\E k \in 1..Len(invalidMACAddresses) : addr = invalidMACAddresses[k]

\* IsValidMACAddress; bytes.Equal is equality of the byte sequences
IsValidMACAddress(addr) ==
    IF Len(addr) = MacLen
    THEN ~\E k \in 1..Len(invalidMACAddresses) : addr = invalidMACAddresses[k]
    ELSE FALSE

ValidNoCall == [called |-> FALSE, valid |-> FALSE]

ValidInit ==
    /\ macAddr \in SeqsUpTo(MacBytes, MaxMacLen)
    /\ macValid = ValidNoCall

ValidIdle ==
    /\ macAddr = <<>>
    /\ macValid = ValidNoCall

CheckMAC ==
    /\ ~macValid.called
    /\ macValid' = [called |-> TRUE, valid |-> IsValidMACAddress(macAddr)]
    /\ UNCHANGED <<macAddr, notValid>>

ValidNext == CheckMAC

(***************************************************************************)
(* One specification per component                                         *)
(***************************************************************************)
InitCache == CacheInit /\ RetryIdle /\ SysIdle /\ MapIdle /\ RtIdle /\ ValidIdle
SpecCache == InitCache /\ [][CacheNext]_vars

InitSys == SysInit /\ CacheIdle /\ RetryIdle /\ MapIdle /\ RtIdle /\ ValidIdle
SpecSysfs  == InitSys /\ [][SysNext]_vars
SpecNetDev == InitSys /\ [][NetDevNext]_vars

InitRt == RtInit /\ CacheIdle /\ RetryIdle /\ SysIdle /\ MapIdle /\ ValidIdle
SpecRuntime == InitRt /\ [][RtNext]_vars

InitMap == MapInit /\ CacheIdle /\ RetryIdle /\ SysIdle /\ RtIdle /\ ValidIdle
SpecMacMap == InitMap /\ [][MapNext]_vars

InitValid == ValidInit /\ CacheIdle /\ RetryIdle /\ SysIdle /\ MapIdle /\ RtIdle
SpecValid == InitValid /\ [][ValidNext]_vars

InitRetry == RetryInit /\ CacheIdle /\ SysIdle /\ MapIdle /\ RtIdle /\ ValidIdle
SpecRetry == InitRetry /\ [][RetryNext]_vars

(***************************************************************************)
(* Claims about the NetConf cache (checked under SpecCache)                *)
(***************************************************************************)

\* C1: Clear is idempotent. Every Clear returns no error; on a path that does
\* not exist it leaves the cache unchanged; on a path that exists it removes
\* that entry (and nothing else), and in the state it leaves a Load of the
\* path fails and a further Clear of it returns no error and changes nothing.
C1_ClearIdempotent ==
    [][\A p \in EntryPaths :
        (cacheCall'.op = "Clear" /\ cacheCall'.path = p) =>
            /\ cacheCall'.err = Nil
            /\ ~files[p].exists => (files' = files /\ dirExists' = dirExists)
            /\ files[p].exists => files' = [files EXCEPT ![p] = Absent]
            /\ ReadScratchNetConf(p)'.err # Nil
            /\ ReadScratchNetConf(p)'.isNil
            /\ CleanCachedNetConf(p)'.err = Nil
            /\ CleanCachedNetConf(p)'.files = files']_vars

\* C1 witness: Clear has removed an entry that existed while another entry is cached
C1_Witness ==
    /\ cacheCall.op = "Clear" /\ cacheCall.existed /\ cacheCall.err = Nil
    /\ ~files[cacheCall.path].exists
    /\ \E q \in EntryPaths : files[q].exists

\* The bytes of a payload that is a string or a []byte
IsBytesPayload(conf) == conf.kind \in {"string", "bytes"}

\* C2 as claimed: after a successful Save, Load of the entry returns exactly
\* the bytes passed to Save.
C2_LoadReturnsPayloadBytes ==
    (cacheCall.op = "Save" /\ cacheCall.err = Nil /\ IsBytesPayload(cacheCall.conf)) =>
        /\ ReadScratchNetConf(cacheCall.path).err = Nil
        /\ ReadScratchNetConf(cacheCall.path).data = cacheCall.conf.v

\* C2 amended: after a successful Save, Load of the entry succeeds and returns
\* exactly json.Marshal(conf), the serialized form of the payload given to
\* the latest Save on that key; a Save whose payload cannot be serialized
\* fails and leaves the cache as it was.
C2_LoadReturnsMarshalled ==
    [][cacheCall'.op = "Save" =>
        LET m == Marshal(cacheCall'.conf)
        IN  /\ cacheCall'.err = Nil <=> m.err = Nil
            /\ cacheCall'.err = Nil =>
                /\ files'[cacheCall'.path] = File(m.bytes)
                /\ dirExists'
            /\ cacheCall'.err # Nil => (files' = files /\ dirExists' = dirExists)]_vars
    /\ [](cacheCall.op = "Save" /\ cacheCall.err = Nil =>
            ReadScratchNetConf(cacheCall.path) =
                [err |-> Nil, isNil |-> FALSE, data |-> Marshal(cacheCall.conf).bytes])
    /\ [](cacheCall.op = "Load" /\ cacheCall.existed =>
            /\ cacheCall.err = Nil
            /\ cacheCall.data = files[cacheCall.path].data)

\* C2 witness: a Save has overwritten an entry with a []byte payload, which is
\* stored base64-encoded
C2_Witness ==
    /\ cacheCall.op = "Save" /\ cacheCall.err = Nil /\ cacheCall.existed
    /\ cacheCall.conf.kind = "bytes" /\ Len(cacheCall.conf.v) > 0
    /\ files[cacheCall.path].data = <<Quote>> \o Base64(cacheCall.conf.v) \o <<Quote>>

\* C3 as claimed: entries are keyed uniquely per (containerID, interfaceName):
\* a Save for one pair and a Clear of one pair's entry leave the entry that
\* Load returns for every other pair as it was.
C3_EntriesNotShared ==
    [][\A c1 \in ContainerIDs, i1 \in IfNames, c2 \in ContainerIDs, i2 \in IfNames :
        LET p1 == EntryPath(DataDir, CRef(c1, i1))
            p2 == EntryPath(DataDir, CRef(c2, i2))
        IN  (/\ <<c1, i1>> # <<c2, i2>>
             /\ \/ cacheCall'.op = "Save" /\ cacheCall'.cid = c1 /\ cacheCall'.ifName = i1
                \/ cacheCall'.op = "Clear" /\ cacheCall'.path = p1)
            => files'[p2] = files[p2]]_vars

(***************************************************************************)
(* Claims about Retry (checked under SpecRetry)                            *)
(***************************************************************************)
Failed(k) == calls[k] # Nil

\* What C4 says of invocations and of the result, for maxAttempts >= 1
C4_CallsAndResult ==
    retries >= 1 =>
        /\ Len(calls) <= retries
        /\ \A k \in 1..(Len(calls) - 1) : Failed(k)
        /\ retryPc = "done" =>
            /\ Len(calls) >= 1
            /\ retryRet = calls[Len(calls)]
            /\ Failed(Len(calls)) => Len(calls) = retries

\* C4 as claimed: at most maxAttempts invocations, none after a success, nil on
\* the first success and the last invocation's error when all fail; and the
\* sleep happens only between attempts: every sleep is followed by another
\* invocation.
C4_SleepOnlyBetweenAttempts ==
    /\ C4_CallsAndResult
    /\ (retries >= 1 /\ retryPc = "done") => \A k \in 1..Len(sleeps) : sleeps[k] < Len(calls)

\* C4 amended: at most maxAttempts invocations, none after a success, nil on
\* the first success and the last invocation's error when all fail; a sleep
\* follows every failed invocation, the last one included, so a run in which
\* all maxAttempts invocations fail sleeps maxAttempts times before it returns.
C4_SleepAfterEveryFailure ==
    /\ C4_CallsAndResult
    /\ retries >= 1 =>
        /\ \A k \in 1..Len(sleeps) : sleeps[k] = k /\ Failed(k)
        /\ retryPc \in {"for", "done"} =>
            Len(sleeps) = Cardinality({k \in 1..Len(calls) : Failed(k)})

\* C4 witness: maxAttempts = 3, f failed twice and then succeeded: three
\* invocations, two sleeps, nil returned
C4_Witness ==
    /\ retries = 3 /\ retryPc = "done" /\ retryRet = Nil
    /\ Len(calls) = 3 /\ Failed(1) /\ Failed(2) /\ ~Failed(3)
    /\ sleeps = <<1, 2>>

\* C5: with maxAttempts <= 0 Retry never invokes f, never sleeps, and returns nil
C5_NoAttempts ==
    retries <= 0 =>
        /\ calls = <<>>
        /\ sleeps = <<>>
        /\ retryPc \in {"for", "done"}
        /\ retryPc = "done" => retryRet = Nil

\* C5 witness: Retry has returned for maxAttempts = 0
C5_Witness == retries = 0 /\ retryPc = "done" /\ retryRet = Nil /\ calls = <<>>

(***************************************************************************)
(* Claims about the sysfs resolver (checked under SpecSysfs, SpecNetDev)   *)
(***************************************************************************)

\* pf has n configured VFs: sriov_numvfs reads n and virtfn0 .. virtfn<n-1> are links
Configured(pf, n) ==
    /\ GetSriovNumVfs(pf).err = Nil
    /\ GetSriovNumVfs(pf).n = n
    /\ \A i \in 0..(n - 1) : VirtfnEntry(pf, i).kind = "link"

\* The indexes below the VF count of pf whose virtfn link leads to addr
Resolving(addr, pf) ==
    {i \in 0..(GetSriovNumVfs(pf).n - 1) :
        VirtfnEntry(pf, i).kind = "link" /\ Base(VirtfnEntry(pf, i).target) = addr}

\* C6: for a PF with N configured VFs and every i in 0..N-1, GetPciAddress(pf, i)
\* succeeds and GetVfid of its result and pf returns i without error; GetVfid
\* returns on success an index in [0, N) whose link leads to the address, and
\* an error when no virtfn0..virtfnN-1 link leads to it.
C6_VfidRoundTrip ==
    /\ \A pf \in PfNames, n \in 0..MaxVFs :
        Configured(pf, n) =>
            \A i \in 0..(n - 1) :
                /\ GetPciAddress(pf, i).err = Nil
                /\ GetVfid(GetPciAddress(pf, i).pciaddr, pf) = [err |-> Nil, id |-> i]
    /\ \A pf \in PfNames \cup {NoPf}, addr \in PciAddrs :
        LET r == GetVfid(addr, pf)
            t == GetSriovNumVfs(pf)
        IN  /\ r.err = Nil => (t.err = Nil /\ r.id \in Resolving(addr, pf))
            /\ (t.err # Nil \/ Resolving(addr, pf) = {}) => (r.err # Nil /\ r.id = 0)
    /\ sysCall.op = "GetVfid" => GetVfid(sysCall.addr, sysCall.pf) = [err |-> sysCall.err, id |-> sysCall.n]

\* C6 witness: with two configured VFs, GetVfid has resolved the address of VF 1 to 1
C6_Witness ==
    /\ sysCall.op = "GetVfid" /\ sysCall.err = Nil /\ sysCall.n = 1
    /\ sysCall.pf \in PfNames /\ Configured(sysCall.pf, 2)
    /\ GetPciAddress(sysCall.pf, 1) = [err |-> Nil, pciaddr |-> sysCall.addr]

\* The content, with its surrounding white space dropped, is the decimal
\* numeral of a non-negative integer (a leading "+" allowed)
IsNonNegativeInteger(data) ==
    LET t      == TrimSpace(data)
        digits == IF t # <<>> /\ Head(t) = PlusSign THEN Tail(t) ELSE t
    IN  digits # <<>> /\ \A k \in 1..Len(digits) : IsDigit(digits[k])

\* The integer such a content denotes
NonNegativeValue(data) ==
    LET t == TrimSpace(data)
    IN  ParseDigits(IF Head(t) = PlusSign THEN Tail(t) ELSE t, 0)

\* C11: a call of GetSriovNumVfs succeeds only when the PF's sriov_numvfs
\* file exists and what it holds at the time of the call is a non-negative
\* integer, and then returns that integer; for an absent path or file it
\* returns the error of the failed open, and for an empty, non-numeric or
\* negative content an error, so that every successful result is >= 0.  The
\* result is that of the file's present content, whatever earlier calls
\* returned.
C11_CountIsNonNegative ==
    sysCall.op = "GetSriovNumVfs" =>
        LET node    == IF sysCall.pf \in DOMAIN numvfs THEN numvfs[sysCall.pf] ELSE NumvfsAbsent
            counted == node.kind = "file" /\ IsNonNegativeInteger(node.data)
        IN  /\ sysCall.err = Nil =>
                   /\ counted
                   /\ sysCall.n >= 0
                   /\ sysCall.n = NonNegativeValue(node.data)
            /\ node.kind = "none" => sysCall.err = "failed to open the sriov_numfs of device"

\* C10 as claimed: GetVFLinkNames and GetVFLinkNamesFromVFID each return all
\* entries of the device's net/ directory, and each fails when the directory
\* is missing or empty.
C10_AllEntriesOrError ==
    /\ sysCall.op = "GetVFLinkNames" =>
        LET d == NetDirOf(sysCall.addr)
        IN  IF d.kind = "dir" /\ d.names # {}
            THEN sysCall.err = Nil /\ <<sysCall.out>> = ReadDir(d.names)
            ELSE sysCall.err # Nil
    /\ sysCall.op = "GetVFLinkNamesFromVFID" =>
        LET d == NetDirOfVf(sysCall.pf, sysCall.vf)
        IN  IF d.kind = "dir" /\ d.names # {}
            THEN sysCall.err = Nil /\ sysCall.names = ReadDir(d.names)
            ELSE sysCall.err # Nil

\* C10 amended: GetVFLinkNames returns one name, the first entry of net/ in
\* os.ReadDir's order, and fails when the directory is missing, unreadable or
\* empty; GetVFLinkNamesFromVFID returns all entries of net/, fails when the
\* directory is missing or unreadable, and returns an empty list and no error
\* when it is empty.
C10_FirstEntryAndAllEntries ==
    /\ sysCall.op = "GetVFLinkNames" =>
        LET d == NetDirOf(sysCall.addr)
        IN  IF d.kind = "dir" /\ d.names # {}
            THEN sysCall.err = Nil /\ sysCall.out = ReadDir(d.names)[1]
            ELSE sysCall.err # Nil /\ sysCall.out = ""
    /\ sysCall.op = "GetVFLinkNamesFromVFID" =>
        LET d == NetDirOfVf(sysCall.pf, sysCall.vf)
        IN  IF d.kind = "dir"
            THEN /\ sysCall.err = Nil /\ ~sysCall.isNil
                 /\ Len(sysCall.names) = Cardinality(d.names)
                 /\ {sysCall.names[k] : k \in 1..Len(sysCall.names)} = d.names
            ELSE sysCall.err # Nil /\ sysCall.isNil

\* C10 witness: the net/ directory of VF 1 holds two netdevices and was listed
\* through the PF and the VF index
C10_Witness ==
    /\ sysCall.op = "GetVFLinkNamesFromVFID" /\ sysCall.err = Nil /\ sysCall.vf = 1
    /\ Len(sysCall.names) = 2
    /\ GetVFLinkNames(VfAddr(1)) = [err |-> Nil, name |-> sysCall.names[1]]
    /\ \E i \in VfIndexes : NetDirOfVf(sysCall.pf, i) = Dir({})

(***************************************************************************)
(* Claims about the container runtime client (checked under SpecRuntime)   *)
(***************************************************************************)
Connected(eps) == \E k \in 1..Len(eps) : eps[k] \in rtReachable

\* C7: with an empty runtimeEndpoint the default endpoints are tried in their
\* order up to the first that connects and no further, with a runtimeEndpoint
\* only that one is tried; the call fails with a connection error, without a
\* status query, iff no tried endpoint connects, fails with a runtime error
\* when the connected runtime rejects the query, and otherwise returns the
\* info map of that runtime.
C7_ProbeOrderAndErrors ==
    /\ IF rtEndpoint = ""
       THEN /\ Len(rtTried) <= Len(defaultRuntimeEndpoints)
            /\ rtTried = SubSeq(defaultRuntimeEndpoints, 1, Len(rtTried))
            /\ \A k \in 1..(Len(rtTried) - 1) : rtTried[k] \notin rtReachable
       ELSE rtTried \in {<<>>, <<rtEndpoint>>}
    /\ rtPc = "done" =>
        /\ rtTried # <<>>
        /\ (rtEndpoint = "" /\ ~Connected(rtTried)) => rtTried = defaultRuntimeEndpoints
        /\ IF ~Connected(rtTried)
           THEN /\ rtRet = [err |-> "could not initialize container runtime client",
                            isNil |-> TRUE, info |-> NoInfo]
                /\ rtQueries = <<>>
           ELSE LET ep == rtTried[Len(rtTried)]
                IN  /\ rtQueries = <<ep>>
                    /\ rtRet = IF ep \in rtKnows
                               THEN [err |-> Nil, isNil |-> FALSE, info |-> SandboxInfo(ep)]
                               ELSE [err |-> "failed to get ContainerStatus from runtime",
                                     isNil |-> TRUE, info |-> NoInfo]
    /\ rtPc # "done" => (rtQueries = <<>> /\ rtRet = RtNoRet)

\* C7 witness: containerd refuses, crio connects and answers; cri-dockerd would
\* connect too and is not tried
C7_Witness ==
    /\ rtEndpoint = "" /\ rtPc = "done"
    /\ rtTried = SubSeq(defaultRuntimeEndpoints, 1, 2)
    /\ defaultRuntimeEndpoints[3] \in rtReachable
    /\ rtRet.err = Nil /\ rtRet.info = SandboxInfo(defaultRuntimeEndpoints[2])

(***************************************************************************)
(* Claims about the PCI-to-MAC mapping store (checked under SpecMacMap)    *)
(***************************************************************************)

\* The text decodes into a map of strings: it is valid JSON and is null or an
\* object whose values are strings or null
DecodesAsStringMap(doc) ==
    /\ doc.valid
    /\ doc.top \in {"null", "object"}
    /\ \A k \in 1..Len(doc.members) : doc.members[k].val.t \in {"string", "null"}

\* The members of the text with the key addr
MembersFor(doc, addr) == {k \in 1..Len(doc.members) : doc.members[k].key = addr}

\* The string the text maps addr to: that of the last member with that key
MappedString(doc, addr) ==
    LET last == CHOOSE k \in MembersFor(doc, addr) : \A j \in MembersFor(doc, addr) : j <= k
    IN  doc.members[last].val.s

\* The text is a JSON object all of whose values are strings
IsObjectOfStrings(doc) ==
    /\ doc.valid
    /\ doc.top = "object"
    /\ \A k \in 1..Len(doc.members) : doc.members[k].val.t = "string"

\* C8 as claimed: RetrieveMacFromPci returns the MAC string mapped to
\* pciAddress iff the file exists, decodes as a JSON object of strings and
\* contains pciAddress as a key; otherwise it returns an error and "".
C8_OnlyObjectsOfStrings ==
    macCall.op = "RetrieveMacFromPci" =>
        LET mapped == /\ macFile.kind = "file"
                      /\ IsObjectOfStrings(macFile.doc)
                      /\ MembersFor(macFile.doc, macCall.addr) # {}
        IN  /\ macCall.err = Nil <=> mapped
            /\ macCall.err = Nil => macCall.mac = MappedString(macFile.doc, macCall.addr)
            /\ macCall.err # Nil => macCall.mac = ""

\* C8 amended: RetrieveMacFromPci returns the string mapped to pciAddress, and
\* no error, iff the file exists and can be read, json.Unmarshal decodes it
\* into the string map without error (a JSON object whose values are strings
\* or null, a null value read as "", or the text null, read as an empty map)
\* and the map has pciAddress as a key; otherwise it returns "" and an error,
\* which is the file-not-found error iff the file does not exist, the parse
\* error iff it was read and decoding failed, and the key-not-found error iff
\* it decoded and lacks the key.  The call leaves the file as it is.
C8_LookupMAC ==
    /\ [](macCall.op = "RetrieveMacFromPci" =>
            LET read    == macFile.kind = "file"
                decoded == read /\ DecodesAsStringMap(macFile.doc)
                present == MembersFor(macFile.doc, macCall.addr) # {}
            IN  /\ macCall.err = Nil <=> (decoded /\ present)
                /\ macCall.err = Nil => macCall.mac = MappedString(macFile.doc, macCall.addr)
                /\ macCall.err # Nil => macCall.mac = ""
                /\ macCall.err = "pciToMac file is not found in the path" <=> macFile.kind = "none"
                /\ macCall.err = "parse pciToMac file" <=> (read /\ ~decoded)
                /\ macCall.err = "the pci Address is not found in the pciToMac File"
                       <=> (decoded /\ ~present))
    /\ [][macCall'.op = "RetrieveMacFromPci" => macFile' = macFile]_vars

\* C8 witness: the file maps one address to null and another to a MAC string,
\* and the second was looked up
C8_Witness ==
    /\ macCall.op = "RetrieveMacFromPci" /\ macCall.err = Nil
    /\ macFile.kind = "file" /\ Len(macFile.doc.members) = 2
    /\ macFile.doc.members[1].key # macCall.addr
    /\ macFile.doc.members[1].val = JsonNull
    /\ macFile.doc.members[2] = [key |-> macCall.addr, val |-> JsonString(macCall.mac)]
    /\ macCall.mac \in MacStrings

(***************************************************************************)
(* Claims about IsValidMACAddress (checked under SpecValid)                *)
(***************************************************************************)

\* C9: IsValidMACAddress(addr) is true iff addr has exactly 6 bytes, not all of
\* them 0x00 and not all of them 0xFF
C9_ValidMAC ==
    macValid.called =>
        (macValid.valid <=>
            /\ Len(macAddr) = 6
            /\ \E i \in 1..6 : macAddr[i] # 0
            /\ \E i \in 1..6 : macAddr[i] # 255)

\* C9 witness: a 6-byte address that mixes 0x00 and 0xFF was found valid
C9_Witness ==
    /\ macValid.called /\ macValid.valid
    /\ Len(macAddr) = 6
    /\ \A i \in 1..6 : macAddr[i] \in {0, 255}

====
